---------------------------- MODULE Spec2Model ----------------------------
(***************************************************************************)
(* Basis-trading backtester: the strategy engine (trading_strategies.py),  *)
(* the signal engine (trading_signals.py), the funding index               *)
(* (fee_rate_provider.py), the day runner (backtester.py) and the stream   *)
(* synchronizer (market_data_provider.py).                                 *)
(*                                                                         *)
(* Numbers.  Python floats are modelled as exact fixed-point numbers:      *)
(* money and position amounts carry the factor MoneyScale, prices and      *)
(* timestamps are plain integers, a rate r is the integer r * rate_den and *)
(* a ratio threshold x is the integer x * 10^6.  The prices and the        *)
(* capital of the model are chosen so that every division the code makes   *)
(* is exact.  Timestamps are seconds and stay far below 1e12, so the       *)
(* millisecond normalisation of fee_rate_provider.py:185 never applies.    *)
(***************************************************************************)
EXTENDS Integers, Sequences, FiniteSets, TLC

VARIABLES
    \* ---- TradingStratsFirst (the ledger) ----
    capital, positions, closed_positions, next_position_id,
    total_pnl, total_fee, total_funding_fee, trade_count, win_count,
    current_position_type, last_entry_time, next_funding_time,
    funding_fee_enabled,
    \* ---- Backtester.run / run_single_day ----
    pc, day, df_len, last_data, all_trades, start_capital, day_pnl,
    \* ---- Backtester.results: the dates of the records appended so far ----
    results,
    \* ---- the exchange's settlement events (timestamp -> rate) ----
    funding,
    \* ---- the (swap, spot) mid prices the tick files of the run hold ----
    bar_prices,
    \* ---- MarketDataProvider (the stream synchronizer) ----
    swap_readers, spot_readers, swap_offsets, spot_offsets,
    current_swap_reader_idx, current_spot_reader_idx, current_swap, returned,
    last_timestamp,
    \* ---- the caller of the provider: what it calls, with which interval,
    \*      how often it has called, what it was given, whether it was told
    \*      that the stream has ended ----
    client, interval_ms, calls, emitted, ended,
    \* ---- a caller of the FeeRateProvider: the timestamp it asked about and
    \*      the event it was given by get_next_funding_rate or by
    \*      get_prev_funding_rate, and which of the two it asked ----
    query_ts, next_event, prev_event, asked,
    \* ---- the funding-rate cache shared by every FeeRateProvider: what the
    \*      exchange's API returns now for each instrument, the cache files,
    \*      the calls of get_daily_funding_rates in flight, and how often the
    \*      API has been asked for each (instrument, date) ----
    upstream, cache_files, lookups, fetched,
    \* ---- a caller of TradingSignalFirst: which signal it asked for, the row
    \*      and position type it passed, the signal returned, and whether the
    \*      call raised instead of returning ----
    signal_asked, signal_data, signal_position_type, signal_returned,
    signal_raised,
    \* ---- the parallel branch of Backtester.run: the day runs handed to the
    \*      process pool (each with the frame its date has and, once it has
    \*      completed, what its copy of the strategy holds), the dates in the
    \*      order their runs completed, and the dict run() returned ----
    workers, completed, report,
    \* ---- construction: the arguments a strategy and a backtester were
    \*      constructed with, and the rows handed to that strategy since ----
    strategy_built, backtester_built, rows_handed

ledger_vars == <<capital, positions, closed_positions, next_position_id,
                 total_pnl, total_fee, total_funding_fee, trade_count, win_count,
                 current_position_type, last_entry_time, next_funding_time>>
runner_vars == <<pc, day, df_len, last_data, all_trades, start_capital, day_pnl,
                 results>>
query_vars  == <<query_ts, next_event, prev_event, asked>>
cache_vars  == <<upstream, cache_files, lookups, fetched>>
signal_vars == <<signal_asked, signal_data, signal_position_type,
                 signal_returned, signal_raised>>
pool_vars   == <<workers, completed, report>>
construct_vars == <<strategy_built, backtester_built, rows_handed>>
env_vars    == <<funding, funding_fee_enabled, bar_prices, query_vars, cache_vars,
                 signal_vars, pool_vars, construct_vars>>
sync_vars   == <<swap_readers, spot_readers, swap_offsets, spot_offsets,
                 current_swap_reader_idx, current_spot_reader_idx, current_swap,
                 returned, last_timestamp, client, interval_ms, calls, emitted,
                 ended>>
vars        == <<ledger_vars, runner_vars, env_vars, sync_vars>>

----------------------------------------------------------------------------
\* Bounds of the model
MaxDays       == 2      \* dates handed to Backtester.run
MaxBarsPerDay == 4      \* rows of one day's resampled frame
WindowSize    == 1      \* Backtester.window_size
MaxTicks      == 2      \* ticks of one side over both of its files
MaxCalls      == 4      \* calls a caller makes on one provider

\* Program constants
max_positions      == 2
fee_rate_num       == 3          \* fee_rate = 0.00015 = 3 / 20000
fee_rate_den       == 20000
rate_den           == 10000      \* a funding rate r is stored as r * 10000
min_entry_interval == 3600
settlement_guard   == 800
settlement_period  == 28800
near_settlement    == 28000
tz_offset          == 28800      \* Asia/Shanghai is UTC+8
day_seconds        == 86400
ratio_den          == 1000000

short_in_threshold                     == 1000758
short_out_threshold                    ==  999999
long_in_threshold                      ==  999000
long_out_threshold                     == 1000001
short_in_threshold_near_positive_fee   == 1000500
short_out_threshold_near_positive_fee  ==  999750
long_in_threshold_near_positive_fee    ==  998750
long_out_threshold_near_positive_fee   ==  999750
short_in_threshold_near_negative_fee   == 1001000
short_out_threshold_near_negative_fee  == 1000250
long_in_threshold_near_negative_fee    ==  999250
long_out_threshold_near_negative_fee   == 1000250

MoneyScale      == fee_rate_den
\* 5100 USDT: half of it is divisible by both prices a position can be sized
\* at (50 and 51)
initial_capital == 5100 * MoneyScale

None   == 0 - 1         \* Python's None where a timestamp or rate is expected
NoType == "None"        \* Python's None for current_position_type

\* Inputs: the (swap, spot) mid prices a bar can carry, the second of the day
\* a bar can be stamped with, the funding rates of the exchange
BarPrices   == { <<51, 50>>, <<50, 50>>, <<50, 51>> }
\* the same with an empty side of a book: a mid price of zero
ZeroBarPrices == { <<0, 50>>, <<50, 0>>, <<0, 0>>, <<50, 50>> }
BarOffsets  == { 7200, 9000, 10800, 28400, 28800, 57600 }
RatePairs   == { <<1, 0 - 2>>, <<0 - 2, 1>> }
Settlements == { k * settlement_period : k \in 0 .. (3 * MaxDays + 1) }

Max(a, b) == IF a >= b THEN a ELSE b

----------------------------------------------------------------------------
\* FeeRateProvider

\* the calendar date (days since the epoch) of a timestamp in self.tz
DateOf(timestamp) == (timestamp + tz_offset) \div day_seconds

DayStart(date) == date * day_seconds - tz_offset

\* the events of one date: the fetch window (00:00:00, 23:59:59] joined with
\* (23:59:59, 00:00:01 of the next day]
get_daily_funding_rates(date) ==
    { ts \in DOMAIN funding : DayStart(date) < ts /\ ts <= DayStart(date + 1) + 1 }

SetMin(S) == CHOOSE x \in S : \A y \in S : x <= y
SetMax(S) == CHOOSE x \in S : \A y \in S : x >= y

Event(ts) == [ts |-> ts, rate |-> funding[ts]]
NoEvent   == [ts |-> None, rate |-> None]

\* the scan of line 200 taking ts >= timestamp
get_next_funding_rate_NotStrict(timestamp) ==
    LET today == { ts \in get_daily_funding_rates(DateOf(timestamp)) : ts >= timestamp }
        next  == get_daily_funding_rates(DateOf(timestamp) + 1)
    IN  IF today # {} THEN Event(SetMin(today))
        ELSE IF next # {} THEN Event(SetMin(next))
        ELSE NoEvent

\* the fallback of lines 206-215 going on to the date after the next
get_next_funding_rate_TwoDatesAhead(timestamp) ==
    LET today == { ts \in get_daily_funding_rates(DateOf(timestamp)) : ts > timestamp }
        next  == get_daily_funding_rates(DateOf(timestamp) + 1)
        later == get_daily_funding_rates(DateOf(timestamp) + 2)
    IN  IF today # {} THEN Event(SetMin(today))
        ELSE IF next # {} THEN Event(SetMin(next))
        ELSE IF later # {} THEN Event(SetMin(later))
        ELSE NoEvent

get_next_funding_rate(timestamp) ==
    LET today == { ts \in get_daily_funding_rates(DateOf(timestamp)) : ts > timestamp }
        next  == get_daily_funding_rates(DateOf(timestamp) + 1)
    IN  IF today # {} THEN Event(SetMin(today))
        ELSE IF next # {} THEN Event(SetMin(next))
        ELSE NoEvent

get_prev_funding_rate(timestamp) ==
    LET today == { ts \in get_daily_funding_rates(DateOf(timestamp)) : ts < timestamp }
        prev  == get_daily_funding_rates(DateOf(timestamp) - 1)
    IN  IF today # {} THEN Event(SetMax(today))
        ELSE IF prev # {} THEN Event(SetMax(prev))
        ELSE NoEvent

\* ---- the cache of get_daily_funding_rates ----

\* instruments the API is asked about (inst_id)
Instruments == {"BTC-USDT-SWAP", "ETH-USDT-SWAP"}

\* the rate the exchange settles an instrument at
RateOf(inst_id) == IF inst_id = "BTC-USDT-SWAP" THEN 1 ELSE 0 - 2

\* dates looked up (date_str)
LookupDates == {0, 1}

\* processes or provider instances that call get_daily_funding_rates on the
\* same cache directory
Callers == {1, 2}

NoEvents == [ts \in {} |-> 0]

\* a cache file that does not exist, and one that holds a day's events
NoFile       == [exists |-> FALSE, events |-> NoEvents]
File(events) == [exists |-> TRUE, events |-> events]

\* the path of a cache file: cache_dir / exchange / date_str.json, the same
\* for every instrument
_get_cache_path(date, inst_id) == date

\* the file at the path, or None
_load_from_cache(date, inst_id) == cache_files[_get_cache_path(date, inst_id)]

\* what the API returns for one date: the two fetches of lines 150-157 merged
_fetch_funding_rates(history, date) ==
    [ts \in { t \in DOMAIN history :
                DayStart(date) < t /\ t <= DayStart(date + 1) + 1 } |-> history[ts]]

\* no call in flight
NoLookup ==
    [pc |-> "idle", inst_id |-> "none", date |-> None, result |-> NoEvents,
     warm |-> FALSE]

----------------------------------------------------------------------------
\* TradingSignalFirst

\* the test of line 95 counting the 28000th second of a period as near
_is_near_settlement_Inclusive(timestamp) ==
    timestamp % settlement_period >= near_settlement

_is_near_settlement(timestamp) == timestamp % settlement_period > near_settlement

\* swap_price / spot_price > threshold, the threshold given times 10^6
RatioAbove(swap_price, spot_price, threshold) ==
    (swap_price - spot_price) * ratio_den > (threshold - ratio_den) * spot_price

RatioBelow(swap_price, spot_price, threshold) ==
    (swap_price - spot_price) * ratio_den < (threshold - ratio_den) * spot_price

\* get_next_funding_rate returns the tuple (None, None) when it finds nothing;
\* a tuple is true in a condition, so near settlement the signal goes on to
\* compare the rate None with 0, which raises TypeError
SignalRaises(data) ==
    /\ _is_near_settlement(data.exchange_timestamp)
    /\ get_next_funding_rate(data.exchange_timestamp).ts = None

\* lines 144-150 taken whether settlement is near or not
get_entry_signal_IgnoresSettlement(data) ==
    IF RatioAbove(data.swap_price, data.spot_price, short_in_threshold) THEN 0 - 1
    ELSE IF RatioBelow(data.swap_price, data.spot_price, long_in_threshold) THEN 1
    ELSE 0

get_entry_signal(data) ==
    LET swap_price   == data.swap_price
        spot_price   == data.spot_price
        funding_rate == get_next_funding_rate(data.exchange_timestamp).rate
    IN  IF _is_near_settlement(data.exchange_timestamp)
        THEN IF funding_rate > 0
             THEN IF RatioAbove(swap_price, spot_price, short_in_threshold_near_positive_fee)
                  THEN 0 - 1 ELSE 0
             ELSE IF RatioBelow(swap_price, spot_price, long_in_threshold_near_negative_fee)
                  THEN 1 ELSE 0
        ELSE IF RatioAbove(swap_price, spot_price, short_in_threshold) THEN 0 - 1
             ELSE IF RatioBelow(swap_price, spot_price, long_in_threshold) THEN 1
             ELSE 0

get_exit_signal(data, position_type) ==
    LET swap_price == data.swap_price
        spot_price == data.spot_price
        near       == _is_near_settlement(data.exchange_timestamp)
        rate       == get_next_funding_rate(data.exchange_timestamp).rate
    IN  IF position_type = "short"
        THEN LET threshold == IF near /\ rate > 0
                              THEN short_out_threshold_near_positive_fee
                              ELSE short_out_threshold
             IN  IF RatioBelow(swap_price, spot_price, threshold) THEN 1 ELSE 0
        ELSE LET threshold == IF near /\ rate < 0
                              THEN long_out_threshold_near_negative_fee
                              ELSE long_out_threshold
             IN  IF RatioAbove(swap_price, spot_price, threshold) THEN 1 ELSE 0

----------------------------------------------------------------------------
\* Position

Position(position_type, entry_time, swap_price, spot_price, amount, position_id) ==
    [position_type |-> position_type, entry_time |-> entry_time,
     swap_price |-> swap_price, spot_price |-> spot_price, amount |-> amount,
     position_id |-> position_id, funding_payments |-> <<>>]

calculate_pnl(position, exit_swap_price, exit_spot_price) ==
    IF position.position_type = "long"
    THEN (exit_spot_price - position.spot_price
            + (position.swap_price - exit_swap_price)) * position.amount
    ELSE (position.spot_price - exit_spot_price
            + (exit_swap_price - position.swap_price)) * position.amount

----------------------------------------------------------------------------
\* TradingStratsBase / TradingStratsFirst, as functions of the ledger L (the
\* strategy object's fields, plus the list `trades` process_data returns and
\* the flag `raised` once an exception has left the method)

Ledger ==
    [capital |-> capital, positions |-> positions,
     closed_positions |-> closed_positions, next_position_id |-> next_position_id,
     total_pnl |-> total_pnl, total_fee |-> total_fee,
     total_funding_fee |-> total_funding_fee, trade_count |-> trade_count,
     win_count |-> win_count, current_position_type |-> current_position_type,
     last_entry_time |-> last_entry_time, next_funding_time |-> next_funding_time,
     trades |-> <<>>, raised |-> FALSE]

get_position_size_of_capital(L) == L.capital \div max_positions

get_position_size(L) == initial_capital \div max_positions

calculate_trade_amount(L, swap_price, spot_price) ==
    get_position_size(L) \div Max(swap_price, spot_price)

AtCapacity_OffByOne(L) == Len(L.positions) > max_positions

\* the capacity test of can_open_position (line 227) and of line 302
AtCapacity(L) == Len(L.positions) >= max_positions

can_open_position(L, position_type) ==
    /\ ~ AtCapacity(L)
    /\ ~ (L.current_position_type # NoType /\ L.current_position_type # position_type)

\* the payment one position accrues at a settlement with rate prev_rate
FundingFee(position, prev_rate) ==
    IF position.position_type = "long"
    THEN 0 - ((position.swap_price * position.amount * prev_rate) \div rate_den)
    ELSE (position.swap_price * position.amount * prev_rate) \div rate_den

\* the loop of process_funding_fees over self.positions, from index k on
RECURSIVE AccrueFrom(_, _, _, _)
AccrueFrom(L, k, timestamp, prev_rate) ==
    IF k > Len(L.positions) THEN L
    ELSE LET position == L.positions[k] IN
         IF position.entry_time < timestamp
         THEN LET funding_fee == FundingFee(position, prev_rate) IN
              AccrueFrom(
                [L EXCEPT !.capital = @ + funding_fee,
                          !.total_funding_fee = @ + funding_fee,
                          !.positions[k].funding_payments =
                              Append(@, <<timestamp, funding_fee>>)],
                k + 1, timestamp, prev_rate)
         ELSE AccrueFrom(L, k + 1, timestamp, prev_rate)

process_funding_fees(L, timestamp) ==
    IF ~ funding_fee_enabled \/ L.positions = <<>> THEN L
    ELSE LET prev == get_prev_funding_rate(timestamp) IN
         IF prev.ts # None /\ prev.ts # 0 /\ prev.ts = timestamp
         THEN AccrueFrom(L, 1, timestamp, prev.rate)
         ELSE L

\* process_data, lines 259-263: refresh the cached next settlement time
RefreshFundingTime(L, timestamp) ==
    IF L.next_funding_time = None \/ timestamp >= L.next_funding_time
    THEN LET next_funding == get_next_funding_rate(timestamp) IN
         IF next_funding.ts # None /\ next_funding.ts # 0
         THEN [L EXCEPT !.next_funding_time = next_funding.ts]
         ELSE L
    ELSE L

\* list.remove(position): the object itself leaves the list
RemovePosition(ps, position) ==
    SelectSeq(ps, LAMBDA q : q.position_id # position.position_id)

\* closing one position at the given prices (process_data, lines 274-299)
ClosePosition(L, position, swap_price, spot_price) ==
    LET pnl == calculate_pnl(position, swap_price, spot_price)
        fee == ((position.swap_price + position.spot_price + swap_price + spot_price)
                   * position.amount * fee_rate_num) \div fee_rate_den
        rest == RemovePosition(L.positions, position)
    IN  [L EXCEPT !.capital = @ + pnl - fee,
                  !.total_pnl = @ + pnl,
                  !.total_fee = @ + fee,
                  !.trade_count = @ + 1,
                  !.win_count = IF pnl > 0 THEN @ + 1 ELSE @,
                  !.trades = Append(@, <<"close", position.position_type,
                                         position.amount, swap_price, spot_price>>),
                  !.closed_positions = Append(@, position),
                  !.positions = rest,
                  !.current_position_type = IF rest = <<>> THEN NoType ELSE @]

\* the loop `for position in list(self.positions)`, over the copy `snapshot`
RECURSIVE ExitFrom(_, _, _, _)
ExitFrom(L, snapshot, k, data) ==
    IF k > Len(snapshot) THEN L
    ELSE IF get_exit_signal(data, snapshot[k].position_type) > 0
         THEN ExitFrom(ClosePosition(L, snapshot[k], data.swap_price, data.spot_price),
                       snapshot, k + 1, data)
         ELSE ExitFrom(L, snapshot, k + 1, data)

InSettlementGuard_After(L, timestamp) ==
    /\ L.next_funding_time # None /\ L.next_funding_time # 0
    /\ timestamp > L.next_funding_time + settlement_guard

\* the settlement guard of line 307
InSettlementGuard(L, timestamp) ==
    /\ L.next_funding_time # None /\ L.next_funding_time # 0
    /\ timestamp > L.next_funding_time - settlement_guard

TooSoonAfterEntry_Minutes(L, timestamp) ==
    timestamp - L.last_entry_time < min_entry_interval \div 60

\* the spacing rule of lines 311-313
TooSoonAfterEntry(L, timestamp) ==
    timestamp - L.last_entry_time < min_entry_interval

\* an entry whose fee is taken from the capital but not added to total_fee
OpenPosition_FeeNotTotalled(L, position_type, data) ==
    LET amount   == calculate_trade_amount(L, data.swap_price, data.spot_price)
        position == Position(position_type, data.exchange_timestamp,
                             data.swap_price, data.spot_price, amount,
                             L.next_position_id)
        fee      == ((data.swap_price + data.spot_price) * amount * fee_rate_num)
                        \div fee_rate_den
    IN  [L EXCEPT !.next_position_id = @ + 1,
                  !.capital = @ - fee,
                  !.positions = Append(@, position),
                  !.current_position_type = position_type,
                  !.last_entry_time = data.exchange_timestamp,
                  !.trades = Append(@, <<"open", position_type, amount,
                                         data.swap_price, data.spot_price>>)]

\* lines 320-351: open a position at the bar's prices
OpenPosition(L, position_type, data) ==
    LET amount   == calculate_trade_amount(L, data.swap_price, data.spot_price)
        position == Position(position_type, data.exchange_timestamp,
                             data.swap_price, data.spot_price, amount,
                             L.next_position_id)
        fee      == ((data.swap_price + data.spot_price) * amount * fee_rate_num)
                        \div fee_rate_den
    IN  [L EXCEPT !.next_position_id = @ + 1,
                  !.capital = @ - fee,
                  !.total_fee = @ + fee,
                  !.positions = Append(@, position),
                  !.current_position_type = position_type,
                  !.last_entry_time = data.exchange_timestamp,
                  !.trades = Append(@, <<"open", position_type, amount,
                                         data.swap_price, data.spot_price>>)]

\* lines 301-351: the entry evaluation
EntryEvaluation(L, data) ==
    IF ~ AtCapacity(L)
    THEN IF SignalRaises(data) THEN [L EXCEPT !.raised = TRUE]
         ELSE LET timestamp == data.exchange_timestamp
                  signal    == get_entry_signal(data)
                  entry_signal ==
                      IF InSettlementGuard(L, timestamp) \/ TooSoonAfterEntry(L, timestamp)
                      THEN 0 ELSE signal
                  position_type == IF entry_signal > 0 THEN "long" ELSE "short"
              IN  IF entry_signal # 0 /\ can_open_position(L, position_type)
                  THEN OpenPosition(L, position_type, data)
                  ELSE L
    ELSE L

\* lines 267-299: the exit evaluation; the first get_exit_signal call raises
\* before any position is closed
ExitEvaluation(L, data) ==
    IF L.positions # <<>> /\ SignalRaises(data) THEN [L EXCEPT !.raised = TRUE]
    ELSE ExitFrom(L, L.positions, 1, data)

process_data(L, data) ==
    LET timestamp == data.exchange_timestamp
        L1 == process_funding_fees(L, timestamp)
        L2 == RefreshFundingTime(L1, timestamp)
        L3 == ExitEvaluation(L2, data)
    IN  IF L3.raised THEN L3 ELSE EntryEvaluation(L3, data)

\* the strategy object's fields after a call
SetLedger(L) ==
    /\ capital' = L.capital
    /\ positions' = L.positions
    /\ closed_positions' = L.closed_positions
    /\ next_position_id' = L.next_position_id
    /\ total_pnl' = L.total_pnl
    /\ total_fee' = L.total_fee
    /\ total_funding_fee' = L.total_funding_fee
    /\ trade_count' = L.trade_count
    /\ win_count' = L.win_count
    /\ current_position_type' = L.current_position_type
    /\ last_entry_time' = L.last_entry_time
    /\ next_funding_time' = L.next_funding_time


----------------------------------------------------------------------------
\* Backtester.run (the sequential branch) and run_single_day.  The frame df of
\* a day is read row by row: last_data is its last row so far, df_len its
\* length so far; a row is fixed once it is read, and the rows after row i
\* play no part in iteration i.

Bar(timestamp, prices) ==
    [exchange_timestamp |-> timestamp, swap_price |-> prices[1],
     spot_price |-> prices[2]]

NoBar == [exchange_timestamp |-> 0, swap_price |-> 0, spot_price |-> 0]

\* run() has not returned
NoReport == [returned |-> FALSE]

\* an object that has not been constructed
NotBuilt == [status |-> "none"]

\* TradingStratsBase.__init__: the arguments are stored as they come
TradingStratsBase_init(capital_arg, max_positions_arg) ==
    [status |-> "constructed", initial_capital |-> capital_arg,
     capital |-> capital_arg, max_positions |-> max_positions_arg]

\* Backtester.__init__: the arguments are stored as they come
Backtester_init(window_size_arg, interval_ms_arg) ==
    [status |-> "constructed", window_size |-> window_size_arg,
     interval_ms |-> interval_ms_arg]

\* the rows the resampler can deliver next on this day: later than the last
BarsOfDay ==
    { Bar(day * day_seconds + offset, prices) :
        offset \in { o \in BarOffsets :
                       day * day_seconds + o > last_data.exchange_timestamp },
        prices \in bar_prices }

\* the settlement schedules of the exchange: a rate for the even and one for
\* the odd settlements, or no funding data at all
FundingSchedules ==
    { [ts \in Settlements |->
          IF (ts \div settlement_period) % 2 = 0 THEN r[1] ELSE r[2]] :
        r \in RatePairs }
    \cup { [ts \in {} |-> 0] }

\* line 147: the trades of one call, stamped with the bar's timestamp
Stamped(trades, timestamp) ==
    [k \in 1 .. Len(trades) |-> <<timestamp>> \o trades[k]]

\* what _init_readers finds for the date: the tick files of both sides, or a
\* file that is not there
FileOutcomes == {"present", "missing"}

\* run_single_day is entered for the next date.  The MarketDataProvider is
\* constructed before the try of line 109; with a file missing its
\* constructor raises FileNotFoundError, which nothing up to run() catches
StartDay ==
    /\ pc = "idle"
    /\ day < MaxDays
    /\ \E files \in FileOutcomes :
          IF files = "missing"
          THEN /\ pc' = "file_missing"
               /\ UNCHANGED <<df_len, last_data, all_trades, start_capital>>
          ELSE /\ pc' = "loop"
               /\ df_len' = 0
               /\ last_data' = NoBar
               /\ all_trades' = <<>>
               /\ start_capital' = capital
    /\ UNCHANGED <<ledger_vars, env_vars, sync_vars, day, day_pnl, results>>

\* a row with index below window_size: the loop of line 138 starts after it
\* the loop starting at row 0: the first rows of the day handed to the strategy
SkipRow_Processes ==
    /\ pc = "loop"
    /\ df_len < MaxBarsPerDay
    /\ df_len < WindowSize
    /\ \E data \in BarsOfDay :
          LET L == process_data(Ledger, data) IN
          /\ last_data' = data
          /\ df_len' = df_len + 1
          /\ SetLedger(L)
          /\ IF L.raised
             THEN pc' = "raised" /\ UNCHANGED all_trades
             ELSE /\ pc' = pc
                  /\ all_trades' = all_trades
                                     \o Stamped(L.trades, data.exchange_timestamp)
    /\ UNCHANGED <<env_vars, sync_vars, day, start_capital, day_pnl, results>>

\* lines 138-140: the loop starts at index window_size; the rows before it are
\* only the history of the first window
SkipRow ==
    /\ pc = "loop"
    /\ df_len < MaxBarsPerDay
    /\ df_len < WindowSize
    /\ \E data \in BarsOfDay :
          /\ last_data' = data
          /\ df_len' = df_len + 1
    /\ UNCHANGED <<ledger_vars, env_vars, sync_vars, pc, day, all_trades, start_capital,
                   day_pnl, results>>

\* what the API call of _fetch_funding_rates does when a bar's first lookup
\* misses the cache: it answers, or it raises (the exchange cannot be reached)
FetchOutcomes == {"ok", "fails"}

\* one iteration of the loop of lines 138-150.  Every bar looks up the funding
\* events before it changes the ledger; no caller between _fetch_funding_rates
\* and run_single_day catches an exception, so a failed fetch leaves the loop
\* with the ledger as it was
ProcessBar ==
    /\ pc = "loop"
    /\ df_len < MaxBarsPerDay
    /\ df_len >= WindowSize
    /\ \E data \in BarsOfDay, fetch \in FetchOutcomes :
          LET L == process_data(Ledger, data) IN
          IF fetch = "fails"
          THEN /\ pc' = "fetch_failed"
               /\ UNCHANGED <<ledger_vars, last_data, df_len, all_trades>>
          ELSE /\ last_data' = data
               /\ df_len' = df_len + 1
               /\ SetLedger(L)
               /\ IF L.raised
                  THEN pc' = "raised" /\ UNCHANGED all_trades
                  ELSE /\ pc' = pc
                       /\ all_trades' = all_trades
                                          \o Stamped(L.trades, data.exchange_timestamp)
    /\ UNCHANGED <<env_vars, sync_vars, day, start_capital, day_pnl, results>>

\* lines 166-188: one forced close at the last row's prices
ForceClose(L, position) ==
    LET last_swap_price == last_data.swap_price
        last_spot_price == last_data.spot_price
        pnl == calculate_pnl(position, last_swap_price, last_spot_price)
        fee == ((position.swap_price + position.spot_price
                   + last_swap_price + last_spot_price)
                   * position.amount * fee_rate_num) \div fee_rate_den
    IN  [L EXCEPT !.capital = @ + pnl - fee,
                  !.total_pnl = @ + pnl,
                  !.total_fee = @ + fee,
                  !.trade_count = @ + 1,
                  !.win_count = IF pnl > 0 THEN @ + 1 ELSE @,
                  !.trades = Append(@, <<last_data.exchange_timestamp, "close",
                                         position.position_type, position.amount,
                                         last_swap_price, last_spot_price>>),
                  !.closed_positions = Append(@, position),
                  !.positions = RemovePosition(@, position)]

\* the loop run over the live list: each removal makes it skip the next one
RECURSIVE LiquidateFrom_Live(_, _, _)
LiquidateFrom_Live(L, snapshot, k) ==
    IF k > Len(L.positions) THEN L
    ELSE LiquidateFrom_Live(ForceClose(L, L.positions[k]), snapshot, k + 1)

RECURSIVE LiquidateFrom(_, _, _)
LiquidateFrom(L, snapshot, k) ==
    IF k > Len(snapshot) THEN L
    ELSE LiquidateFrom(ForceClose(L, snapshot[k]), snapshot, k + 1)

\* ---- Backtester.run: the parallel branch and the aggregation ----

\* lines 166-188 in a worker: one forced close at the prices of the frame's
\* last row
ForceCloseAt(L, position, last) ==
    LET pnl == calculate_pnl(position, last.swap_price, last.spot_price)
        fee == ((position.swap_price + position.spot_price
                   + last.swap_price + last.spot_price)
                   * position.amount * fee_rate_num) \div fee_rate_den
    IN  [L EXCEPT !.capital = @ + pnl - fee,
                  !.total_pnl = @ + pnl,
                  !.total_fee = @ + fee,
                  !.trade_count = @ + 1,
                  !.win_count = IF pnl > 0 THEN @ + 1 ELSE @,
                  !.trades = Append(@, <<last.exchange_timestamp, "close",
                                         position.position_type, position.amount,
                                         last.swap_price, last.spot_price>>),
                  !.closed_positions = Append(@, position),
                  !.positions = RemovePosition(@, position)]

RECURSIVE LiquidateAt(_, _, _, _)
LiquidateAt(L, snapshot, k, last) ==
    IF k > Len(snapshot) THEN L
    ELSE LiquidateAt(ForceCloseAt(L, snapshot[k], last), snapshot, k + 1, last)

\* the loop of lines 138-150 over a whole frame, from the row with index
\* window_size on
RECURSIVE RunRows(_, _, _)
RunRows(L, frame, i) ==
    IF i > Len(frame) \/ L.raised THEN L
    ELSE RunRows(process_data(L, frame[i]), frame, i + 1)

\* what a day's run leaves in the strategy it ran on, and whether it appended
\* a record to the results it ran on
DayOutcome(L, recorded) ==
    [state |-> "done", recorded |-> recorded, capital |-> L.capital,
     total_pnl |-> L.total_pnl, total_fee |-> L.total_fee,
     total_funding_fee |-> L.total_funding_fee, trade_count |-> L.trade_count,
     win_count |-> L.win_count, trades |-> Len(L.trades)]

Liquidated(L, frame) ==
    DayOutcome(LiquidateAt(L, L.positions, 1, frame[Len(frame)]), ~L.raised)

\* run_single_day executed in a worker process, on the copy of the backtester
\* and its strategy that the task was pickled with
run_single_day(L, frame) ==
    IF frame = <<>> THEN DayOutcome(L, FALSE)
    ELSE Liquidated(RunRows(L, frame, WindowSize + 1), frame)

\* a task handed to the pool and not yet completed
Submitted(frame) == [state |-> "submitted", frame |-> frame]

\* lines 254-288: the dict run() returns, read from the backtester's own
\* strategy and results; the win rate is given as (wins, trades counted)
RunReport ==
    [total_pnl |-> total_pnl, total_fee |-> total_fee,
     total_funding_fee |-> total_funding_fee,
     net_pnl |-> total_pnl - total_fee - total_funding_fee,
     trade_count |-> trade_count,
     win_rate |-> <<win_count, Max(1, trade_count)>>,
     initial_capital |-> initial_capital,
     final_capital |-> capital,
     daily_results |-> results]

\* the empty day returning the capital gained since construction
EmptyDay_ReturnsTotal ==
    /\ pc = "loop"
    /\ df_len = 0
    /\ pc' = "idle"
    /\ day' = day + 1
    /\ day_pnl' = capital - initial_capital
    /\ UNCHANGED <<ledger_vars, env_vars, sync_vars, df_len, last_data, all_trades,
                   start_capital, results>>

\* lines 129-131: the frame is empty, the day returns 0.0
EmptyDay ==
    /\ pc = "loop"
    /\ df_len = 0
    /\ pc' = "idle"
    /\ day' = day + 1
    /\ day_pnl' = 0
    /\ UNCHANGED <<ledger_vars, env_vars, sync_vars, df_len, last_data, all_trades,
                   start_capital, results>>

\* lines 152-209: the frame has ended; liquidate and return the day's result
EndDay ==
    /\ pc = "loop"
    /\ df_len > 0
    /\ LET L == LiquidateFrom(Ledger, positions, 1) IN
          /\ SetLedger(L)
          /\ all_trades' = all_trades \o L.trades
          /\ day_pnl' = L.capital - start_capital
    /\ results' = Append(results, day)
    /\ pc' = "idle"
    /\ day' = day + 1
    /\ UNCHANGED <<env_vars, sync_vars, df_len, last_data, start_capital>>


----------------------------------------------------------------------------
\* MarketDataProvider.  A reader is a MarketDataReader over one file: the
\* file's ticks and the number of them already read.  A side has two readers,
\* the file of the start date and the file of the end date (the window lasts
\* 24 hours, so the two dates always differ).

Inf       == 1000000                       \* float("inf")
data_type == "Depth"
NoTick    == [timestamp |-> None, kind |-> "None", seq |-> 0]
NoPair    == [swap |-> NoTick, spot |-> NoTick]

\* Inputs: the window [target_ts, end_ts] of the provider, the timestamps (in
\* seconds) a tick can carry, and the intervals (in milliseconds) a caller
\* resamples with
target_ts      == 1
end_ts         == 3
TickTimes      == { 0, 1, 2, 3, 4 }
Intervals      == { 1000, 2000 }

\* the state of one side: its readers, the index of the current one and the
\* offsets of all of them
Side(readers, idx, offsets) == [readers |-> readers, idx |-> idx, offsets |-> offsets]

\* MarketDataReader.peek
peek(R) ==
    IF R.offsets[R.idx] < Len(R.readers[R.idx])
    THEN R.readers[R.idx][R.offsets[R.idx] + 1].timestamp
    ELSE Inf

\* MarketDataReader.read: the next record and the reader moved past it; a reader
\* at its end has no record to give
ReadTick(R) ==
    IF R.offsets[R.idx] < Len(R.readers[R.idx])
    THEN R.readers[R.idx][R.offsets[R.idx] + 1]
    ELSE NoTick

AfterRead(R) ==
    IF R.offsets[R.idx] < Len(R.readers[R.idx])
    THEN [R EXCEPT !.offsets[R.idx] = @ + 1]
    ELSE R

\* one loop of _seek_to_start_time: the current reader of a side skips the
\* ticks before target_ts
RECURSIVE SeekSide(_)
SeekSide(R) ==
    IF peek(R) < target_ts /\ peek(R) # Inf THEN SeekSide(AfterRead(R)) ELSE R

_switch_to_next_reader_if_needed(R) ==
    IF R.idx < Len(R.readers) /\ peek(R) = Inf
    THEN [side |-> [R EXCEPT !.idx = @ + 1], switched |-> TRUE]
    ELSE [side |-> R, switched |-> FALSE]

\* the read without the tests of lines 103 and 123
RECURSIVE ReadNextValid_NoEndCheck(_)
ReadNextValid_NoEndCheck(R) ==
    LET sw == _switch_to_next_reader_if_needed(R) IN
    IF peek(R) = Inf /\ ~ sw.switched
    THEN [side |-> R, data |-> NoTick]
    ELSE LET R1   == IF peek(R) = Inf THEN sw.side ELSE R
             data == ReadTick(R1)
             R2   == AfterRead(R1)
         IN  IF data.kind = data_type
             THEN [side |-> R2, data |-> data]
             ELSE ReadNextValid_NoEndCheck(R2)

\* _read_next_valid_swap and _read_next_valid_spot (the same code for each
\* side): the side after the call and the tick returned, NoTick for None
RECURSIVE ReadNextValid(_)
ReadNextValid(R) ==
    LET sw == _switch_to_next_reader_if_needed(R) IN
    IF peek(R) = Inf /\ ~ sw.switched
    THEN [side |-> R, data |-> NoTick]
    ELSE LET R1   == IF peek(R) = Inf THEN sw.side ELSE R
             data == ReadTick(R1)
             R2   == AfterRead(R1)
         IN  IF data.kind = data_type
             THEN IF data.timestamp > end_ts
                  THEN [side |-> R2, data |-> NoTick]
                  ELSE [side |-> R2, data |-> data]
             ELSE ReadNextValid(R2)

\* the provider object: both sides and the buffered swap tick
Provider ==
    [swap |-> Side(swap_readers, current_swap_reader_idx, swap_offsets),
     spot |-> Side(spot_readers, current_spot_reader_idx, spot_offsets),
     current_swap |-> current_swap,
     last_timestamp |-> last_timestamp]

_read_next_valid_swap(P) == ReadNextValid(P.swap)
_read_next_valid_spot(P) == ReadNextValid(P.spot)

\* the loop of lines 145-147 taking the tick after the last qualifying one
RECURSIVE AdvanceSwap_OneTooFar(_, _, _)
AdvanceSwap_OneTooFar(P, spot, best_swap) ==
    IF P.current_swap # NoTick /\ P.current_swap.timestamp <= spot.timestamp
    THEN LET r == _read_next_valid_swap(P) IN
         AdvanceSwap_OneTooFar([P EXCEPT !.swap = r.side, !.current_swap = r.data],
                               spot, P.current_swap)
    ELSE [provider |-> P,
          best_swap |-> IF P.current_swap # NoTick THEN P.current_swap ELSE best_swap]

\* the loop of lines 145-147: the last swap tick not later than the spot tick
RECURSIVE AdvanceSwap(_, _, _)
AdvanceSwap(P, spot, best_swap) ==
    IF P.current_swap # NoTick /\ P.current_swap.timestamp <= spot.timestamp
    THEN LET r == _read_next_valid_swap(P) IN
         AdvanceSwap([P EXCEPT !.swap = r.side, !.current_swap = r.data],
                     spot, P.current_swap)
    ELSE [provider |-> P, best_swap |-> best_swap]

\* read_next returning (None, None) at line 142 instead of going on to the
\* next spot tick
read_next_ReturnsOnSkip(P) ==
    LET r    == _read_next_valid_spot(P)
        P1   == [P EXCEPT !.spot = r.side]
        spot == r.data
    IN  IF spot = NoTick THEN [provider |-> P1, pair |-> NoPair]
        ELSE IF P1.current_swap = NoTick \/ P1.current_swap.timestamp > spot.timestamp
             THEN [provider |-> P1, pair |-> NoPair]
             ELSE LET a == AdvanceSwap(P1, spot, NoTick) IN
                  [provider |-> a.provider,
                   pair |-> [swap |-> a.best_swap, spot |-> spot]]

\* read_next: the provider after the call and the pair returned
RECURSIVE read_next(_)
read_next(P) ==
    LET r    == _read_next_valid_spot(P)
        P1   == [P EXCEPT !.spot = r.side]
        spot == r.data
    IN  IF spot = NoTick THEN [provider |-> P1, pair |-> NoPair]
        ELSE IF P1.current_swap = NoTick \/ P1.current_swap.timestamp > spot.timestamp
             THEN read_next(P1)
             ELSE LET a == AdvanceSwap(P1, spot, NoTick) IN
                  IF a.best_swap # NoTick
                  THEN [provider |-> a.provider,
                        pair |-> [swap |-> a.best_swap, spot |-> spot]]
                  ELSE read_next(a.provider)

\* lines 169, 184-185 and 231: the timestamp of a pair, used as the resampling
\* baseline and recorded as the row's timestamp
BarTimestamp_OfSpot(swap, spot) == spot.timestamp

BarTimestamp(swap, spot) == swap.timestamp

\* lines 169 and 185: the pair a call returns becomes the baseline
Stamp(r) ==
    [provider |-> [r.provider EXCEPT
                      !.last_timestamp = BarTimestamp(r.pair.swap, r.pair.spot)],
     pair |-> r.pair]

\* the loop of lines 176-186 giving back the first pair it reads
PullUntil_NoThreshold(P, interval) ==
    Stamp(read_next(P))

\* the loop of lines 176-186: pairs are read until one is stamped at or after
\* last_timestamp + interval_ms / 1000.0; r is what read_next has returned
RECURSIVE PullUntil(_, _)
Pulled(P, interval, r) ==
    IF r.pair = NoPair THEN r
    ELSE IF BarTimestamp(r.pair.swap, r.pair.spot) * 1000
               >= P.last_timestamp * 1000 + interval
         THEN Stamp(r)
         ELSE PullUntil(r.provider, interval)

PullUntil(P, interval) == Pulled(P, interval, read_next(P))

\* lines 166-170: the first pair is returned whatever its timestamp
FirstBar(r) == IF r.pair # NoPair THEN Stamp(r) ELSE r

\* read_next_depth_by_interval (data_type is "Depth", so line 163 does not
\* raise)
read_next_depth_by_interval(P, interval) ==
    IF P.last_timestamp = None THEN FirstBar(read_next(P)) ELSE PullUntil(P, interval)

\* lines 231-265: the row collected for a pair
Row(swap, spot) ==
    [timestamp |-> BarTimestamp(swap, spot), swap |-> swap, spot |-> spot]

\* the loop of lines 218-266: the provider after it and the rows collected; r
\* is what read_next_depth_by_interval has returned
RECURSIVE CollectRows(_, _, _)
Collected(interval, data, r) ==
    IF r.pair = NoPair THEN [provider |-> r.provider, data |-> data]
    ELSE CollectRows(r.provider, interval, Append(data, Row(r.pair.swap, r.pair.spot)))

CollectRows(P, interval, data) ==
    Collected(interval, data, read_next_depth_by_interval(P, interval))

\* lines 203-205: seek again, buffer the next swap tick, forget the baseline
Rebuffered(spot0, r) ==
    [swap |-> r.side, spot |-> spot0, current_swap |-> r.data,
     last_timestamp |-> None]

\* read_all_depth_by_interval: the reset of lines 203-205, then collect until
\* the stream ends
read_all_depth_by_interval(P, interval) ==
    CollectRows(Rebuffered(SeekSide(P.spot), ReadNextValid(SeekSide(P.swap))),
                interval, <<>>)

\* the ticks of one side in time order, numbered in that order
TickStreams ==
    UNION { { [k \in 1 .. n |-> [timestamp |-> f[k], kind |-> data_type, seq |-> k]] :
                f \in { g \in [1 .. n -> TickTimes] :
                          \A i \in 1 .. n - 1 : g[i] <= g[i + 1] } } :
            n \in 0 .. MaxTicks }

\* a stream cut after its first `cut` ticks into the file of the start date
\* and the file of the end date
FilesOf(stream, cut) ==
    << SubSeq(stream, 1, cut), SubSeq(stream, cut + 1, Len(stream)) >>

\* __init__, lines 30-41: seek both sides, then buffer the first swap tick
Constructed(swap_files, spot_files) ==
    LET swap0 == SeekSide(Side(swap_files, 1, <<0, 0>>))
        spot0 == SeekSide(Side(spot_files, 1, <<0, 0>>))
        r     == ReadNextValid(swap0)
    IN  [swap |-> r.side, spot |-> spot0, current_swap |-> r.data,
         last_timestamp |-> None]

SetProvider(P) ==
    /\ swap_readers' = P.swap.readers
    /\ spot_readers' = P.spot.readers
    /\ swap_offsets' = P.swap.offsets
    /\ spot_offsets' = P.spot.offsets
    /\ current_swap_reader_idx' = P.swap.idx
    /\ current_spot_reader_idx' = P.spot.idx
    /\ current_swap' = P.current_swap
    /\ last_timestamp' = P.last_timestamp

\* what a caller keeps of a call that returned `pair`
Kept(pair, timestamp) ==
    IF pair = NoPair THEN <<>>
    ELSE << [timestamp |-> timestamp, swap |-> pair.swap, spot |-> pair.spot] >>

\* a call has returned r: the provider is as the call left it and the caller
\* keeps the pair, stamped with the baseline if the call resamples
Returned(r, resampled) ==
    /\ SetProvider(r.provider)
    /\ returned' = r.pair
    /\ emitted' = emitted \o Kept(r.pair, IF resampled THEN r.provider.last_timestamp
                                                        ELSE None)
    /\ ended' = (ended \/ r.pair = NoPair)

\* one call of read_next
ReadNext ==
    /\ client = "read_next" \/ (client = "bulk" /\ calls > 0)
    /\ calls < MaxCalls
    /\ Returned(read_next(Provider), FALSE)
    /\ calls' = calls + 1
    /\ UNCHANGED <<ledger_vars, runner_vars, env_vars, client, interval_ms>>

\* one call of read_next_depth_by_interval
ReadNextDepthByInterval ==
    /\ client = "interval" \/ (client = "bulk" /\ calls > 0)
    /\ calls < MaxCalls
    /\ Returned(read_next_depth_by_interval(Provider, interval_ms), TRUE)
    /\ calls' = calls + 1
    /\ UNCHANGED <<ledger_vars, runner_vars, env_vars, client, interval_ms>>

\* the frame has been collected: the caller keeps its rows
Drained(r) ==
    /\ SetProvider(r.provider)
    /\ emitted' = emitted \o r.data

\* one call of read_all_depth_by_interval, as made by run_single_day on the
\* provider it has just constructed
ReadAllDepthByInterval ==
    /\ client = "bulk"
    /\ calls = 0
    /\ Drained(read_all_depth_by_interval(Provider, interval_ms))
    /\ returned' = NoPair
    /\ ended' = TRUE
    /\ calls' = calls + 1
    /\ UNCHANGED <<ledger_vars, runner_vars, env_vars, client, interval_ms>>

----------------------------------------------------------------------------
\* Specifications

\* the ledger and the runner before any day
LedgerInit ==
    /\ capital = initial_capital
    /\ positions = <<>>
    /\ closed_positions = <<>>
    /\ next_position_id = 1
    /\ total_pnl = 0
    /\ total_fee = 0
    /\ total_funding_fee = 0
    /\ trade_count = 0
    /\ win_count = 0
    /\ current_position_type = NoType
    /\ last_entry_time = 0
    /\ next_funding_time = None
    /\ pc = "idle"
    /\ day = 0
    /\ df_len = 0
    /\ last_data = NoBar
    /\ all_trades = <<>>
    /\ start_capital = initial_capital
    /\ day_pnl = 0
    /\ results = <<>>

\* no provider is being read
SyncIdle ==
    /\ swap_readers = << <<>>, <<>> >>
    /\ spot_readers = << <<>>, <<>> >>
    /\ swap_offsets = <<0, 0>>
    /\ spot_offsets = <<0, 0>>
    /\ current_swap_reader_idx = 1
    /\ current_spot_reader_idx = 1
    /\ current_swap = NoTick
    /\ returned = NoPair
    /\ last_timestamp = None
    /\ client = "none"
    /\ interval_ms = 1000
    /\ calls = 0
    /\ emitted = <<>>
    /\ ended = FALSE

\* an empty cache directory, an exchange that has not settled, and no call of
\* get_daily_funding_rates in flight
CacheIdle ==
    /\ upstream = [inst_id \in Instruments |-> NoEvents]
    /\ cache_files = [path \in LookupDates |-> NoFile]
    /\ lookups = [c \in Callers |-> NoLookup]
    /\ fetched = [inst_id \in Instruments |-> [date \in LookupDates |-> 0]]

\* nothing has been constructed outside the run
ConstructIdle ==
    /\ strategy_built = NotBuilt
    /\ backtester_built = NotBuilt
    /\ rows_handed = 0

\* run() has not handed a day to a process pool and has not returned
PoolIdle ==
    /\ workers = <<>>
    /\ completed = <<>>
    /\ report = NoReport

\* no signal has been asked for from outside the strategy
SignalIdle ==
    /\ signal_asked = "nothing"
    /\ signal_data = NoBar
    /\ signal_position_type = "None"
    /\ signal_returned = 0
    /\ signal_raised = FALSE

\* nothing has been asked of the FeeRateProvider from outside the strategy
FundingIdle ==
    /\ query_ts = None
    /\ next_event = NoEvent
    /\ prev_event = NoEvent
    /\ asked = "nothing"
    /\ CacheIdle
    /\ SignalIdle
    /\ PoolIdle
    /\ ConstructIdle

\* Spec: a sequential run of the backtester over consecutive dates, under any
\* settlement schedule
Init ==
    /\ LedgerInit
    /\ bar_prices = BarPrices
    /\ funding_fee_enabled \in BOOLEAN
    /\ funding \in FundingSchedules
    /\ SyncIdle
    /\ FundingIdle

Next == StartDay \/ SkipRow \/ ProcessBar \/ EmptyDay \/ EndDay

Spec == Init /\ [][Next]_vars

\* SpecParallel: run(parallel=True) over MaxDays dates.  Each date's run is
\* submitted to the process pool as the bound method self.run_single_day, so
\* the worker executes it on an unpickled copy of the backtester as it was at
\* submission; the runs complete in any order; when all have, run() reads the
\* totals from its own strategy

\* frames of a date: up to two rows, at any prices
WorkerOffsets == {7200, 10800}

WorkerFrames(date) ==
    {<<>>}
    \cup { <<Bar(date * day_seconds + o, p)>> : o \in WorkerOffsets, p \in BarPrices }
    \cup { <<Bar(date * day_seconds + 7200, p), Bar(date * day_seconds + 10800, q)>> :
             p \in BarPrices, q \in BarPrices }

\* the worker of a date completes its day run
WorkerCompletes(date) ==
    /\ report = NoReport
    /\ workers[date].state = "submitted"
    /\ workers' = [workers EXCEPT ![date] = run_single_day(Ledger, @.frame)]
    /\ completed' = Append(completed, date)
    /\ UNCHANGED <<ledger_vars, runner_vars, sync_vars, funding, funding_fee_enabled,
                   bar_prices, query_vars, cache_vars, signal_vars, construct_vars,
                   report>>

\* every future has given its result: run() aggregates and returns
ReturnReport ==
    /\ report = NoReport
    /\ \A date \in DOMAIN workers : workers[date].state = "done"
    /\ report' = RunReport
    /\ UNCHANGED <<ledger_vars, runner_vars, sync_vars, funding, funding_fee_enabled,
                   bar_prices, query_vars, cache_vars, signal_vars, construct_vars,
                   workers, completed>>

ParallelInit ==
    /\ LedgerInit
    /\ bar_prices = BarPrices
    /\ funding_fee_enabled \in BOOLEAN
    /\ funding \in FundingSchedules
    /\ SyncIdle
    /\ query_ts = None /\ next_event = NoEvent /\ prev_event = NoEvent
    /\ asked = "nothing"
    /\ CacheIdle
    /\ SignalIdle
    /\ ConstructIdle
    /\ completed = <<>>
    /\ report = NoReport
    /\ workers \in [0 .. MaxDays - 1 -> UNION { { Submitted(frame) :
                        frame \in WorkerFrames(date) } : date \in 0 .. MaxDays - 1 }]
    /\ \A date \in 0 .. MaxDays - 1 : workers[date].frame \in WorkerFrames(date)

ParallelNext ==
    \/ \E date \in DOMAIN workers : WorkerCompletes(date)
    \/ ReturnReport

SpecParallel == ParallelInit /\ [][ParallelNext]_vars

\* SpecConstruct: a strategy and a backtester constructed with any arguments,
\* and the rows of a day then handed to the strategy

\* capital, max_positions and interval_ms as a caller can pass them
CapitalArgs      == {0 - initial_capital, 0, initial_capital}
MaxPositionsArgs == {0 - 1, 0, 1, max_positions}
IntervalArgs     == {0 - 1000, 0, 1000}

ConstructStrategy ==
    /\ strategy_built = NotBuilt
    /\ \E capital_arg \in CapitalArgs, max_positions_arg \in MaxPositionsArgs :
          strategy_built' = TradingStratsBase_init(capital_arg, max_positions_arg)
    /\ UNCHANGED <<ledger_vars, runner_vars, sync_vars, funding, funding_fee_enabled,
                   bar_prices, query_vars, cache_vars, signal_vars, pool_vars,
                   backtester_built, rows_handed>>

ConstructBacktester ==
    /\ strategy_built # NotBuilt
    /\ backtester_built = NotBuilt
    /\ \E interval_ms_arg \in IntervalArgs :
          backtester_built' = Backtester_init(WindowSize, interval_ms_arg)
    /\ UNCHANGED <<ledger_vars, runner_vars, sync_vars, funding, funding_fee_enabled,
                   bar_prices, query_vars, cache_vars, signal_vars, pool_vars,
                   strategy_built, rows_handed>>

\* lines 138-143 of run_single_day: a row of the day's frame is handed to
\* strategy.process_data, whatever the objects were constructed with
HandRow ==
    /\ backtester_built # NotBuilt
    /\ rows_handed < MaxBarsPerDay
    /\ rows_handed' = rows_handed + 1
    /\ UNCHANGED <<ledger_vars, runner_vars, sync_vars, funding, funding_fee_enabled,
                   bar_prices, query_vars, cache_vars, signal_vars, pool_vars,
                   strategy_built, backtester_built>>

ConstructInit ==
    /\ LedgerInit
    /\ bar_prices = BarPrices
    /\ SyncIdle
    /\ funding_fee_enabled = TRUE
    /\ funding = [ts \in {} |-> 0]
    /\ FundingIdle

ConstructNext == ConstructStrategy \/ ConstructBacktester \/ HandRow

SpecConstruct == ConstructInit /\ [][ConstructNext]_vars

\* SpecLastSettlement: the same run over a funding index whose events end on
\* the first day, so that later bars find no next event
EndingSchedules ==
    { [ts \in { t \in Settlements : t <= settlement_period } |->
          IF (ts \div settlement_period) % 2 = 0 THEN r[1] ELSE r[2]] :
        r \in RatePairs }

LastSettlementInit ==
    /\ LedgerInit
    /\ bar_prices = BarPrices
    /\ funding_fee_enabled \in BOOLEAN
    /\ funding \in EndingSchedules
    /\ SyncIdle
    /\ FundingIdle

SpecLastSettlement == LastSettlementInit /\ [][Next]_vars

\* SpecZeroPrice: the same run over tick files in which a side of a book can be
\* empty
ZeroPriceInit ==
    /\ LedgerInit
    /\ bar_prices = ZeroBarPrices
    /\ funding_fee_enabled \in BOOLEAN
    /\ funding \in FundingSchedules
    /\ SyncIdle
    /\ FundingIdle

SpecZeroPrice == ZeroPriceInit /\ [][Next]_vars

\* SpecSync: read_next called again and again on a provider constructed over
\* any two tick streams
SyncInit ==
    /\ LedgerInit
    /\ bar_prices = BarPrices
    /\ funding_fee_enabled = TRUE
    /\ funding = [ts \in {} |-> 0]
    /\ FundingIdle
    /\ \E swap_stream \in TickStreams, spot_stream \in TickStreams :
       \E swap_cut \in 0 .. Len(swap_stream), spot_cut \in 0 .. Len(spot_stream) :
          LET P == Constructed(FilesOf(swap_stream, swap_cut),
                               FilesOf(spot_stream, spot_cut))
          IN  /\ swap_readers = P.swap.readers
              /\ spot_readers = P.spot.readers
              /\ swap_offsets = P.swap.offsets
              /\ spot_offsets = P.spot.offsets
              /\ current_swap_reader_idx = P.swap.idx
              /\ current_spot_reader_idx = P.spot.idx
              /\ current_swap = P.current_swap
              /\ last_timestamp = P.last_timestamp
    /\ returned = NoPair
    /\ \/ client = "read_next" /\ interval_ms = 1000
       \/ client \in {"interval", "bulk"} /\ interval_ms \in Intervals
    /\ calls = 0
    /\ emitted = <<>>
    /\ ended = FALSE

SyncNext == ReadNext \/ ReadNextDepthByInterval \/ ReadAllDepthByInterval

SpecSync == SyncInit /\ [][SyncNext]_vars

\* SpecFunding: get_next_funding_rate or get_prev_funding_rate asked about any
\* timestamp, the exchange
\* having settled at any of the instants of the settlement grid
AnySchedules ==
    { [ts \in S |-> IF (ts \div settlement_period) % 2 = 0 THEN r[1] ELSE r[2]] :
        S \in SUBSET Settlements, r \in RatePairs }

\* a settlement instant, the second before and after it, and the middle of the
\* period that follows it
QueryTimes ==
    { s + d : s \in Settlements, d \in {0 - 1, 0, 1, settlement_period \div 2} }
        \ {0 - 1}

\* one call of get_next_funding_rate; the lookups of this specification read a
\* fixed history and change nothing, so one call per behaviour covers them all
QueryNext ==
    /\ query_ts = None
    /\ \E timestamp \in QueryTimes :
          /\ query_ts' = timestamp
          /\ next_event' = get_next_funding_rate(timestamp)
    /\ asked' = "next"
    /\ UNCHANGED <<ledger_vars, runner_vars, sync_vars, funding, funding_fee_enabled,
                   bar_prices, pool_vars, construct_vars,
                   prev_event, cache_vars, signal_vars>>

\* one call of get_prev_funding_rate
QueryPrev ==
    /\ query_ts = None
    /\ \E timestamp \in QueryTimes :
          /\ query_ts' = timestamp
          /\ prev_event' = get_prev_funding_rate(timestamp)
    /\ asked' = "prev"
    /\ UNCHANGED <<ledger_vars, runner_vars, sync_vars, funding, funding_fee_enabled,
                   bar_prices, pool_vars, construct_vars,
                   next_event, cache_vars, signal_vars>>

FundingInit ==
    /\ LedgerInit
    /\ bar_prices = BarPrices
    /\ SyncIdle
    /\ funding_fee_enabled = TRUE
    /\ funding \in AnySchedules
    /\ FundingIdle

FundingNext == QueryNext \/ QueryPrev

SpecFunding == FundingInit /\ [][FundingNext]_vars

\* SpecCache: callers that share one cache directory look up dates of either
\* instrument, each call a load, and on a miss a fetch and a save, the steps of
\* different callers interleaved in any order; meanwhile the exchange settles
\* and the API returns more than it did

\* instants at which the exchange settles an instrument: local midnight of the
\* second date, which the fetch of the first date returns, and the settlement
\* after it
PublishTimes == {2 * settlement_period, 3 * settlement_period}

\* the exchange settles an instrument: the API returns one event more
Publish ==
    /\ \E inst_id \in Instruments, ts \in PublishTimes :
          /\ ts \notin DOMAIN upstream[inst_id]
          /\ upstream' = [upstream EXCEPT ![inst_id] =
                 [t \in DOMAIN @ \cup {ts} |-> RateOf(inst_id)]]
    /\ UNCHANGED <<ledger_vars, runner_vars, sync_vars, funding, funding_fee_enabled,
                   bar_prices, pool_vars, construct_vars,
                   query_vars, signal_vars, cache_files, lookups, fetched>>

\* get_daily_funding_rates begins: the cache file is loaded; if it exists the
\* call returns its content, otherwise it goes on to ask the API
LoadFromCache(c) ==
    /\ lookups[c].pc \in {"idle", "done"}
    /\ \E inst_id \in Instruments, date \in LookupDates :
          LET file == _load_from_cache(date, inst_id)
          IN  lookups' = [lookups EXCEPT ![c] =
                 IF file.exists
                 THEN [pc |-> "done", inst_id |-> inst_id, date |-> date,
                       result |-> file.events, warm |-> TRUE]
                 ELSE [pc |-> "fetch", inst_id |-> inst_id, date |-> date,
                       result |-> NoEvents, warm |-> FALSE]]
    /\ UNCHANGED <<ledger_vars, runner_vars, sync_vars, funding, funding_fee_enabled,
                   bar_prices, pool_vars, construct_vars,
                   query_vars, signal_vars, upstream, cache_files, fetched>>

\* the call asks the API for the date's events of its instrument
FetchFundingRates(c) ==
    /\ lookups[c].pc = "fetch"
    /\ lookups' = [lookups EXCEPT ![c].pc = "save",
                                  ![c].result = _fetch_funding_rates(
                                      upstream[lookups[c].inst_id], lookups[c].date)]
    /\ fetched' = [fetched EXCEPT ![lookups[c].inst_id][lookups[c].date] = @ + 1]
    /\ UNCHANGED <<ledger_vars, runner_vars, sync_vars, funding, funding_fee_enabled,
                   bar_prices, pool_vars, construct_vars,
                   query_vars, signal_vars, upstream, cache_files>>

\* the call writes what it fetched to the cache file and returns it
SaveToCache(c) ==
    /\ lookups[c].pc = "save"
    /\ cache_files' = [cache_files EXCEPT
           ![_get_cache_path(lookups[c].date, lookups[c].inst_id)] =
               File(lookups[c].result)]
    /\ lookups' = [lookups EXCEPT ![c].pc = "done"]
    /\ UNCHANGED <<ledger_vars, runner_vars, sync_vars, funding, funding_fee_enabled,
                   bar_prices, pool_vars, construct_vars,
                   query_vars, signal_vars, upstream, fetched>>

CacheInit ==
    /\ LedgerInit
    /\ bar_prices = BarPrices
    /\ SyncIdle
    /\ funding_fee_enabled = TRUE
    /\ funding = [ts \in {} |-> 0]
    /\ FundingIdle

CacheNext ==
    \/ Publish
    \/ \E c \in Callers : LoadFromCache(c)
    \/ \E c \in Callers : FetchFundingRates(c)
    \/ \E c \in Callers : SaveToCache(c)

SpecCache == CacheInit /\ [][CacheNext]_vars

\* SpecSignal: get_entry_signal or get_exit_signal called once on any row, the
\* next settlement of the exchange having any rate or not being known

\* the exchange settles at the end of the first period at a positive, a
\* negative or a zero rate, or never
SignalSchedules ==
    {NoEvents} \cup { [ts \in {settlement_period} |-> rate] : rate \in {1, 0 - 2, 0} }

\* the second of settlement, the last second that is not near settlement, the
\* first that is, and one each well before and shortly before settlement
SignalTimes ==
    {0, 7200, near_settlement, near_settlement + 1, settlement_period - 400}

\* every threshold of the signal; with a spot price of ratio_den the price
\* ratio exceeds a threshold exactly when the swap price does
Thresholds ==
    { short_in_threshold, short_out_threshold, long_in_threshold, long_out_threshold,
      short_in_threshold_near_positive_fee, short_out_threshold_near_positive_fee,
      long_in_threshold_near_positive_fee, long_out_threshold_near_positive_fee,
      short_in_threshold_near_negative_fee, short_out_threshold_near_negative_fee,
      long_in_threshold_near_negative_fee, long_out_threshold_near_negative_fee }

\* rows whose price ratio is at, just below and just above each threshold
SignalBars ==
    { Bar(timestamp, <<threshold + d, ratio_den>>) :
        timestamp \in SignalTimes, threshold \in Thresholds, d \in {0 - 1, 0, 1} }

\* one call of get_entry_signal
EvaluateEntry ==
    /\ signal_asked = "nothing"
    /\ \E data \in SignalBars :
          /\ signal_data' = data
          /\ signal_raised' = SignalRaises(data)
          /\ signal_returned' = IF SignalRaises(data) THEN 0
                                ELSE get_entry_signal(data)
    /\ signal_asked' = "entry"
    /\ UNCHANGED <<ledger_vars, runner_vars, sync_vars, funding, funding_fee_enabled,
                   bar_prices, pool_vars, construct_vars,
                   query_vars, cache_vars, signal_position_type>>

\* one call of get_exit_signal
EvaluateExit ==
    /\ signal_asked = "nothing"
    /\ \E data \in SignalBars, position_type \in {"long", "short"} :
          /\ signal_data' = data
          /\ signal_position_type' = position_type
          /\ signal_raised' = SignalRaises(data)
          /\ signal_returned' = IF SignalRaises(data) THEN 0
                                ELSE get_exit_signal(data, position_type)
    /\ signal_asked' = "exit"
    /\ UNCHANGED <<ledger_vars, runner_vars, sync_vars, funding, funding_fee_enabled,
                   bar_prices, pool_vars, construct_vars,
                   query_vars, cache_vars>>

SignalInit ==
    /\ LedgerInit
    /\ bar_prices = BarPrices
    /\ SyncIdle
    /\ funding_fee_enabled = TRUE
    /\ funding \in SignalSchedules
    /\ FundingIdle

SignalNext == EvaluateEntry \/ EvaluateExit

SpecSignal == SignalInit /\ [][SignalNext]_vars

----------------------------------------------------------------------------
\* Properties

\* every position the engine has opened, open or closed
AllPositions ==
    { positions[k] : k \in 1 .. Len(positions) }
        \cup { closed_positions[k] : k \in 1 .. Len(closed_positions) }

\* the positions the step has moved to the closed list
NewlyClosed ==
    SubSeq(closed_positions', Len(closed_positions) + 1, Len(closed_positions'))

\* the step is one call of process_data that returned
IsProcessStep == pc = "loop" /\ df_len' = df_len + 1 /\ df_len >= WindowSize

\* the step is the forced liquidation at the end of a day with rows
IsEndDayStep == pc = "loop" /\ pc' = "idle" /\ df_len > 0

\* C1: every (swap, spot) pair read_next returns has
\* swap.timestamp <= spot.timestamp
C1_SwapNotAfterSpot ==
    returned # NoPair => returned.swap.timestamp <= returned.spot.timestamp

\* a pair was returned whose swap tick is older than its spot tick while a
\* later swap tick is buffered: the two streams interleave
C1_Witness ==
    /\ returned # NoPair
    /\ returned.swap.timestamp < returned.spot.timestamp
    /\ current_swap # NoTick
    /\ current_swap.timestamp > returned.spot.timestamp

\* C2: the number of open positions never exceeds max_positions
C2_OpenPositionsBounded == Len(positions) <= max_positions

C2_Witness == Len(positions) = max_positions

\* C3 (as claimed): the PnL realised by a close is the favourable move of both
\* legs times size: short = ((entry_swap - exit_swap) + (exit_spot - entry_spot))
\* * size, long = ((exit_swap - entry_swap) + (entry_spot - exit_spot)) * size
ClaimedPnl(position, exit_swap_price, exit_spot_price) ==
    IF position.position_type = "short"
    THEN ((position.swap_price - exit_swap_price)
            + (exit_spot_price - position.spot_price)) * position.amount
    ELSE ((exit_swap_price - position.swap_price)
            + (position.spot_price - exit_spot_price)) * position.amount

RECURSIVE SumClaimedPnl(_, _, _)
SumClaimedPnl(closed, exit_swap_price, exit_spot_price) ==
    IF closed = <<>> THEN 0
    ELSE ClaimedPnl(Head(closed), exit_swap_price, exit_spot_price)
            + SumClaimedPnl(Tail(closed), exit_swap_price, exit_spot_price)

C3_RealisedPnlIsFavourableMove ==
    [][ total_pnl' - total_pnl =
            SumClaimedPnl(NewlyClosed, last_data'.swap_price, last_data'.spot_price)
      ]_vars

\* C4 (as claimed): a position opened and closed at the same prices, with no
\* funding in between, changes capital by minus the round-trip fee
\* (entry_swap + entry_spot + exit_swap + exit_spot) * size * fee_rate
RoundTripFee(position, exit_swap_price, exit_spot_price) ==
    ((position.swap_price + position.spot_price + exit_swap_price + exit_spot_price)
        * position.amount * fee_rate_num) \div fee_rate_den

C4_RoundTripCostsRoundTripFee ==
    ( /\ next_position_id = 2
      /\ positions = <<>>
      /\ Len(closed_positions) = 1
      /\ total_funding_fee = 0
      /\ all_trades # <<>>
      /\ all_trades[Len(all_trades)][2] = "close"
      /\ all_trades[Len(all_trades)][5] = closed_positions[1].swap_price
      /\ all_trades[Len(all_trades)][6] = closed_positions[1].spot_price )
    => capital = initial_capital
                    - RoundTripFee(closed_positions[1], closed_positions[1].swap_price,
                                   closed_positions[1].spot_price)

\* C5 (as claimed): with funding enabled, at a bar stamped with a settlement
\* instant s every open position opened before s accrues exactly one payment
\* for s, -swap_price*size*rate for a long and +swap_price*size*rate for a short
ClaimedPayment(position, s) ==
    <<s, IF position.position_type = "long"
         THEN 0 - ((position.swap_price * position.amount * funding[s]) \div rate_den)
         ELSE (position.swap_price * position.amount * funding[s]) \div rate_den>>

C5_AccruesAtEverySettlement ==
    [][ ( /\ IsProcessStep
          /\ funding_fee_enabled
          /\ last_data'.exchange_timestamp \in DOMAIN funding )
        => \A k \in 1 .. Len(positions) :
              positions[k].entry_time < last_data'.exchange_timestamp
              => \E q \in { positions'[j] : j \in 1 .. Len(positions') }
                         \cup { closed_positions'[j] : j \in 1 .. Len(closed_positions') } :
                    /\ q.position_id = positions[k].position_id
                    /\ q.funding_payments =
                          Append(positions[k].funding_payments,
                                 ClaimedPayment(positions[k],
                                                last_data'.exchange_timestamp))
      ]_vars

\* C6 (as claimed): at every step boundary, if a position is open all open
\* positions have one side and current_position_type is that side, and if none
\* is open current_position_type is None
C6_DirectionLockConsistent ==
    /\ \A k \in 1 .. Len(positions) :
          positions[k].position_type = current_position_type
    /\ positions = <<>> => current_position_type = NoType

\* C7: any two positions the engine opened have entry times at least
\* min_entry_interval apart, so two entry signals 1800 s apart open one position
C7_EntriesSpaced ==
    \A p, q \in AllPositions :
        p.position_id # q.position_id
        => \/ p.entry_time - q.entry_time >= min_entry_interval
           \/ q.entry_time - p.entry_time >= min_entry_interval

\* a bar 1800 s after the only entry carried an entry signal of the held side,
\* outside the settlement guard, and opened nothing
C7_Witness ==
    /\ pc = "loop" /\ df_len > WindowSize
    /\ next_position_id = 2 /\ Len(positions) = 1
    /\ last_data.exchange_timestamp = positions[1].entry_time + 1800
    /\ ~ SignalRaises(last_data)
    /\ get_entry_signal(last_data) # 0
    /\ (get_entry_signal(last_data) > 0) = (positions[1].position_type = "long")
    /\ ~ InSettlementGuard(Ledger, last_data.exchange_timestamp)

\* C8: no position is opened at a bar with s - 800 < t < s, s the next
\* settlement the funding index returns for that bar
C8_NoEntryInsideGuard ==
    \A p \in AllPositions :
        LET s == get_next_funding_rate(p.entry_time).ts IN
        s # None => ~ (s - settlement_guard < p.entry_time /\ p.entry_time < s)

\* a bar inside the guard carried an entry signal, with capacity left, a
\* compatible direction and the last entry long ago, and opened nothing
C8_Witness ==
    /\ pc = "loop" /\ df_len > WindowSize
    /\ LET t == last_data.exchange_timestamp
           s == get_next_funding_rate(t).ts
       IN  /\ s # None /\ s - settlement_guard < t /\ t < s
           /\ get_entry_signal(last_data) # 0
           /\ ~ AtCapacity(Ledger)
           /\ current_position_type = NoType
           /\ ~ TooSoonAfterEntry(Ledger, t)
           /\ \A p \in AllPositions : p.entry_time # t

\* C9 (as claimed): a position is sized (capital / max_positions) /
\* max(swap_price, spot_price), capital being the ledger's capital at the entry
C9_SizedFromCurrentCapital ==
    [][ next_position_id' > next_position_id
        => LET p   == positions'[Len(positions')]
               fee == ((p.swap_price + p.spot_price) * p.amount * fee_rate_num)
                          \div fee_rate_den
           IN  p.amount * Max(p.swap_price, p.spot_price) * max_positions
                   = capital' + fee
      ]_vars

\* C9 (amended): a position is sized (initial_capital / max_positions) /
\* max(swap_price, spot_price), initial_capital being the capital the engine
\* was constructed with
C9_SizedFromInitialCapital ==
    \A p \in AllPositions :
        p.amount * Max(p.swap_price, p.spot_price) * max_positions = initial_capital

\* a position opened after fees had already changed the capital
C9_Witness ==
    \E p \in AllPositions : p.position_id = 2

\* C10: the end of a day with rows closes every open position once at the last
\* row's prices: each goes once to the closed list, leaves one
\* (close, side, size, last_swap, last_spot) record, and none stays open
ForcedCloseRecords ==
    [k \in 1 .. Len(positions) |->
        <<last_data.exchange_timestamp, "close", positions[k].position_type,
          positions[k].amount, last_data.swap_price, last_data.spot_price>>]

C10_ForcedLiquidationClosesAllOnce ==
    [][ IsEndDayStep
        => /\ positions' = <<>>
           /\ closed_positions' = closed_positions \o positions
           /\ all_trades' = all_trades \o ForcedCloseRecords
      ]_vars

\* a day has ended by closing a position whose exit signal was not given
C10_Witness ==
    /\ pc = "idle" /\ df_len > 0
    /\ positions = <<>>
    /\ all_trades # <<>>
    /\ LET last == all_trades[Len(all_trades)] IN
          /\ last[2] = "close"
          /\ last[1] = last_data.exchange_timestamp
          /\ ~ SignalRaises(last_data)
          /\ get_exit_signal(last_data, last[3]) = 0

\* the step is a day whose frame is empty returning
IsEmptyDayStep == pc = "loop" /\ df_len = 0 /\ pc' # "loop"

\* C11: a day whose resampled frame is empty ends without an exception,
\* returns day_pnl = 0 and leaves capital, the totals, trade_count, win_count
\* and the open and closed positions as they were
C11_EmptyDayLeavesLedger ==
    [][ IsEmptyDayStep
        => /\ pc' = "idle"
           /\ day_pnl' = 0
           /\ UNCHANGED <<capital, total_pnl, total_fee, total_funding_fee,
                          trade_count, win_count, positions, closed_positions>>
      ]_vars

\* an empty day has followed a day that traded and changed the capital
C11_Witness ==
    /\ pc = "idle" /\ day = 2 /\ df_len = 0
    /\ trade_count > 0
    /\ capital # initial_capital
    /\ day_pnl = 0

\* the ticks of each side over both of its files, and the window [start, end)
\* the claims speak of
SwapStream == swap_readers[1] \o swap_readers[2]
SpotStream == spot_readers[1] \o spot_readers[2]
InsideWindow(tick) == tick.timestamp >= target_ts /\ tick.timestamp < end_ts

\* the spot tick has been given to the caller, paired with some swap tick
IsEmitted(spot) == \E j \in 1 .. Len(emitted) : emitted[j].spot = spot

\* the caller has read the provider to its end with read_next alone
DrainedByReadNext == client = "read_next" /\ ended

\* C12 (as claimed): hold-last-value reuse.  Once a spot tick has been emitted
\* with swap tick w, every later spot tick inside the window is emitted too,
\* with the same w when no newer swap tick with timestamp <= its own exists;
\* and a spot tick inside the window is skipped only when no swap tick inside
\* the window has timestamp <= its own
C12_HoldLastValueReuse ==
    DrainedByReadNext =>
        /\ \A i \in 1 .. Len(emitted) : \A k \in 1 .. Len(SpotStream) :
              LET s == SpotStream[k]
                  w == emitted[i].swap
              IN  (s.seq > emitted[i].spot.seq /\ InsideWindow(s))
                  => /\ IsEmitted(s)
                     /\ (~ \E n \in 1 .. Len(SwapStream) :
                             /\ SwapStream[n].seq > w.seq
                             /\ SwapStream[n].timestamp <= s.timestamp)
                        => \E j \in 1 .. Len(emitted) :
                              emitted[j].spot = s /\ emitted[j].swap = w
        /\ \A k \in 1 .. Len(SpotStream) :
              (InsideWindow(SpotStream[k]) /\ ~ IsEmitted(SpotStream[k]))
              => ~ \E n \in 1 .. Len(SwapStream) :
                      /\ InsideWindow(SwapStream[n])
                      /\ SwapStream[n].timestamp <= SpotStream[k].timestamp

\* the swap tick is inside the window and not later than the spot tick
Qualifies(swap, spot) ==
    swap.timestamp >= target_ts /\ swap.timestamp <= spot.timestamp

\* the latest tick of the swap stream that qualifies for the spot tick
IsLatestQualifying(swap, spot) ==
    /\ \E n \in 1 .. Len(SwapStream) : SwapStream[n] = swap
    /\ Qualifies(swap, spot)
    /\ \A n \in 1 .. Len(SwapStream) :
          Qualifies(SwapStream[n], spot) => SwapStream[n].seq <= swap.seq

\* the first spot tick inside the window for which a swap tick qualifies
IsFirstPairable(spot) ==
    /\ InsideWindow(spot)
    /\ \E n \in 1 .. Len(SwapStream) : Qualifies(SwapStream[n], spot)
    /\ \A k \in 1 .. Len(SpotStream) :
          (SpotStream[k].seq < spot.seq /\ InsideWindow(SpotStream[k]))
          => ~ \E n \in 1 .. Len(SwapStream) : Qualifies(SwapStream[n], SpotStream[k])

\* C13 (as claimed): in every pair produced, by repeated advance calls or by
\* the bulk drain of a freshly constructed provider, the swap tick is the
\* latest tick of the swap stream inside the window whose timestamp is <= the
\* spot tick's; and no qualifying swap tick is lost: when the stream has been
\* read to its end, the first spot tick a swap tick qualifies for has been
\* produced with it
C13_LatestQualifyingSwap ==
    /\ \A j \in 1 .. Len(emitted) :
          IsLatestQualifying(emitted[j].swap, emitted[j].spot)
    /\ ended =>
          \A k \in 1 .. Len(SpotStream) :
             IsFirstPairable(SpotStream[k])
             => /\ emitted # <<>>
                /\ emitted[1].spot = SpotStream[k]
                /\ IsLatestQualifying(emitted[1].swap, SpotStream[k])

C15_NothingBeforeStart ==
    \A j \in 1 .. Len(emitted) :
       emitted[j].swap.timestamp >= target_ts /\ emitted[j].spot.timestamp >= target_ts

\* C16: the bars given out by the interval resampler, one call at a time or
\* as the rows of the bulk drain, are stamped at least interval_ms apart: 
\* t[i+1] >= t[i] + interval, so the timestamps never decrease; the first bar
\* is given out whatever its timestamp
C16_BarsSpacedByInterval ==
    client \in {"interval", "bulk"} =>
        \A j \in 1 .. Len(emitted) - 1 :
           /\ emitted[j + 1].timestamp * 1000 >= emitted[j].timestamp * 1000 + interval_ms
           /\ emitted[j + 1].timestamp >= emitted[j].timestamp

\* two bars have been given out with a two-second interval, the first of them
\* stamped at the start of the window
C16_Witness ==
    /\ client \in {"interval", "bulk"}
    /\ interval_ms = 2000
    /\ Len(emitted) = 2
    /\ emitted[1].timestamp = target_ts

\* C17 (as claimed): the timestamp of a bar, which is the resampling baseline
\* and the timestamp recorded in the row, is the spot tick's timestamp
C17_StampedWithSpotTime ==
    /\ \A j \in 1 .. Len(emitted) :
          emitted[j].timestamp # None
          => emitted[j].timestamp = emitted[j].spot.timestamp
    /\ (client \in {"interval", "bulk"} /\ emitted # <<>>)
          => last_timestamp = emitted[Len(emitted)].spot.timestamp

\* C17 (amended): the timestamp of a bar, which is the resampling baseline and
\* the timestamp recorded in the row, is the swap tick's timestamp
C17_StampedWithSwapTime ==
    /\ \A j \in 1 .. Len(emitted) :
          emitted[j].timestamp # None
          => emitted[j].timestamp = emitted[j].swap.timestamp
    /\ (client \in {"interval", "bulk"} /\ emitted # <<>>)
          => last_timestamp = emitted[Len(emitted)].swap.timestamp

\* a bar has been given out whose swap tick is older than its spot tick
C17_Witness ==
    /\ client \in {"interval", "bulk"}
    /\ \E j \in 1 .. Len(emitted) :
          /\ emitted[j].timestamp # None
          /\ emitted[j].swap.timestamp < emitted[j].spot.timestamp

\* the pairs read_next gives, call after call, until it returns (None, None)
RECURSIVE PairsUntilEnd(_, _)
PairsUntilEnd(P, pairs) ==
    LET r == read_next(P) IN
    IF r.pair = NoPair THEN pairs
    ELSE PairsUntilEnd(r.provider, Append(pairs, r.pair))

\* the pairs the caller has been given
EmittedPairs ==
    [j \in 1 .. Len(emitted) |-> [swap |-> emitted[j].swap, spot |-> emitted[j].spot]]

\* C18 (as claimed): rollover from one file to the next is transparent: the
\* pairs given for a side cut into two files are the pairs given when that
\* side is one file holding all of its ticks
C18_RolloverTransparent ==
    DrainedByReadNext =>
        /\ EmittedPairs = PairsUntilEnd(Constructed(<<SwapStream, <<>> >>, spot_readers), <<>>)
        /\ EmittedPairs = PairsUntilEnd(Constructed(swap_readers, <<SpotStream, <<>> >>), <<>>)

\* the step is a call made after the caller was told that the stream has ended
IsCallAfterEnd == ended /\ calls' = calls + 1

\* C19: the end of the stream is permanent: once a call has returned
\* end-of-stream, every later call of read_next or of
\* read_next_depth_by_interval returns end-of-stream and gives no pair
C19_EndIsPermanent ==
    [][ IsCallAfterEnd => (returned' = NoPair /\ emitted' = emitted) ]_vars

\* calls have been made after the end of a stream that gave a pair and ended
\* at the end bound, with a spot tick left unread behind it
C19_Witness ==
    /\ ended
    /\ emitted # <<>>
    /\ client \in {"read_next", "interval"}
    /\ calls >= Len(emitted) + 2
    /\ \E k \in 1 .. Len(SpotStream) : SpotStream[k].timestamp > end_ts

C21_PrevStrictlyBefore ==
    (asked = "prev" /\ prev_event # NoEvent) => prev_event.ts < query_ts

\* the events of the exchange that fall in the half-open stretch (after, upto]
EventsWithin(after, upto) ==
    { ts \in DOMAIN funding : after < ts /\ ts <= upto }

\* the last second that belongs to the fetch window of the date after T's own
EndOfNextDate(timestamp) == DayStart(DateOf(timestamp) + 2) + 1

\* get_next_funding_rate was asked about a timestamp that no event follows up
\* to the end of the next date, while a later date has events
IsBeyondNextDate ==
    /\ asked = "next"
    /\ EventsWithin(query_ts, EndOfNextDate(query_ts)) = {}
    /\ \E ts \in DOMAIN funding : ts > EndOfNextDate(query_ts)

\* C22 as stated: when T's own date has no event after T and the following
\* date has none, get_next_funding_rate goes on to later dates and returns the
\* earliest event of the first later date that has one
C22_ContinuesToLaterDates ==
    IsBeyondNextDate =>
        /\ next_event # NoEvent
        /\ next_event.ts > query_ts
        /\ \A ts \in DOMAIN funding : ts > query_ts => next_event.ts <= ts

\* C22 as the code has it: when T's own date has no event after T and the
\* following date has none, get_next_funding_rate reports that there is no
\* next event, whatever later dates hold
C22_LooksOneDateAhead ==
    (asked = "next" /\ EventsWithin(query_ts, EndOfNextDate(query_ts)) = {}) =>
        next_event = NoEvent

\* the exchange settles two or more dates after the timestamp asked about, and
\* not between the timestamp and the end of the next date
C22_Witness ==
    /\ IsBeyondNextDate
    /\ next_event = NoEvent

\* a call of get_daily_funding_rates has returned
HasReturned(c) == lookups[c].pc = "done"

\* C23: once the events of a date are fetched and persisted, every later lookup
\* of that date, from any caller on the same cache, returns the identical event
\* set and asks the API nothing: the calls that found the cache file of an
\* (instrument, date) all returned the same events
C23_PersistedIsFinal ==
    \A c1 \in Callers, c2 \in Callers :
        ( /\ HasReturned(c1) /\ lookups[c1].warm
          /\ HasReturned(c2) /\ lookups[c2].warm
          /\ lookups[c1].inst_id = lookups[c2].inst_id
          /\ lookups[c1].date = lookups[c2].date )
        => lookups[c1].result = lookups[c2].result

\* C24: a lookup for one instrument never returns events fetched for another:
\* every event a call returns is an event the exchange settled for the call's
\* own instrument
C24_OnlyOwnInstrument ==
    \A c \in Callers :
        HasReturned(c) =>
            \A ts \in DOMAIN lookups[c].result :
                /\ ts \in DOMAIN upstream[lookups[c].inst_id]
                /\ lookups[c].result[ts] = upstream[lookups[c].inst_id][ts]

\* C25: cache population is single-flight per key: under every interleaving of
\* concurrent lookups the API is asked at most once for an (instrument, date)
C25_SingleFlight ==
    \A inst_id \in Instruments, date \in LookupDates : fetched[inst_id][date] <= 1

\* C26: a funding fetch that fails while a bar is evaluated does not abort the
\* day: the day's run is never ended by the failure of a fetch
C26_FetchFailureDoesNotAbort ==
    pc # "fetch_failed"

\* the row a signal was asked for is near settlement: more than 28000 seconds
\* of its 8-hour period have passed
AskedNear ==
    signal_data.exchange_timestamp % settlement_period > near_settlement

\* the exchange settles after the row a signal was asked for
NextRateKnown ==
    \E ts \in DOMAIN funding : ts > signal_data.exchange_timestamp

\* the rate of the first settlement after the row
NextRate ==
    funding[SetMin({ ts \in DOMAIN funding : ts > signal_data.exchange_timestamp })]

AskedAbove(threshold) ==
    RatioAbove(signal_data.swap_price, signal_data.spot_price, threshold)

AskedBelow(threshold) ==
    RatioBelow(signal_data.swap_price, signal_data.spot_price, threshold)

\* the signals the ordinary thresholds give for the row
OrdinaryEntry ==
    IF AskedAbove(short_in_threshold) THEN 0 - 1
    ELSE IF AskedBelow(long_in_threshold) THEN 1
    ELSE 0

OrdinaryExit ==
    IF signal_position_type = "short"
    THEN IF AskedBelow(short_out_threshold) THEN 1 ELSE 0
    ELSE IF AskedAbove(long_out_threshold) THEN 1 ELSE 0

\* C27: near settlement with no next event, the signal functions complete
\* without error and use the ordinary thresholds: entry is -1 if the ratio is
\* above short_in_threshold, else +1 if it is below long_in_threshold, else 0,
\* and exit is decided by the ordinary exit threshold
C27_NoEventUsesOrdinary ==
    (signal_asked # "nothing" /\ AskedNear /\ ~NextRateKnown) =>
        /\ ~signal_raised
        /\ signal_returned = IF signal_asked = "entry" THEN OrdinaryEntry
                             ELSE OrdinaryExit

\* C28: near settlement with a next event of known nonzero rate, entry with a
\* positive rate is -1 exactly when the ratio is above the near-positive
\* short-entry threshold and never +1, entry with a negative rate is +1 exactly
\* when the ratio is below the near-negative long-entry threshold and never -1
C28_NearSettlementEntry ==
    (signal_asked = "entry" /\ AskedNear /\ NextRateKnown /\ NextRate # 0) =>
        /\ ~signal_raised
        /\ signal_returned =
              IF NextRate > 0
              THEN IF AskedAbove(short_in_threshold_near_positive_fee)
                   THEN 0 - 1 ELSE 0
              ELSE IF AskedBelow(long_in_threshold_near_negative_fee)
                   THEN 1 ELSE 0

\* near settlement and before a positive rate, a short entry was signalled at a
\* ratio the ordinary short-entry threshold does not reach
C28_Witness ==
    /\ signal_asked = "entry" /\ AskedNear /\ NextRateKnown /\ NextRate > 0
    /\ signal_returned = 0 - 1
    /\ ~AskedAbove(short_in_threshold)

\* C29: for a row that is not near settlement the signals use the ordinary
\* thresholds whatever the funding rate: entry is -1 if the ratio is above
\* short_in_threshold, else +1 if below long_in_threshold, else 0; exit of a
\* short is 1 iff the ratio is below short_out_threshold, exit of a long is 1
\* iff it is above long_out_threshold
C29_OrdinaryAwayFromSettlement ==
    (signal_asked # "nothing" /\ ~AskedNear) =>
        /\ ~signal_raised
        /\ signal_returned = IF signal_asked = "entry" THEN OrdinaryEntry
                             ELSE OrdinaryExit

\* at the last second that is not near settlement and before a positive rate,
\* no entry was signalled at a ratio above the near-positive short-entry
\* threshold
C29_Witness ==
    /\ signal_asked = "entry"
    /\ signal_data.exchange_timestamp % settlement_period = near_settlement
    /\ NextRateKnown /\ NextRate > 0
    /\ AskedAbove(short_in_threshold_near_positive_fee)
    /\ signal_returned = 0

\* the predicted rate is one the position pays funding at: positive for a
\* long, negative for a short
Unfavourable ==
    \/ signal_position_type = "long" /\ NextRate > 0
    \/ signal_position_type = "short" /\ NextRate < 0

\* the exit threshold the position's side has for the sign of the rate
AdjustedExitThreshold ==
    IF signal_position_type = "long"
    THEN IF NextRate > 0 THEN long_out_threshold_near_positive_fee
                         ELSE long_out_threshold_near_negative_fee
    ELSE IF NextRate > 0 THEN short_out_threshold_near_positive_fee
                         ELSE short_out_threshold_near_negative_fee

\* C30: the exit evaluation uses the settlement-adjusted exit threshold exactly
\* when the row is near settlement and the predicted rate is the position's
\* unfavourable case, the ordinary exit threshold in every other case, and
\* returns 1 or 0
C30_AdjustedWhenUnfavourable ==
    signal_asked = "exit" =>
        /\ ~signal_raised
        /\ signal_returned =
              IF AskedNear /\ NextRateKnown /\ Unfavourable
              THEN IF signal_position_type = "short"
                   THEN IF AskedBelow(AdjustedExitThreshold) THEN 1 ELSE 0
                   ELSE IF AskedAbove(AdjustedExitThreshold) THEN 1 ELSE 0
              ELSE OrdinaryExit

\* a row with a swap or spot price of zero has been handed to the strategy
IsZeroPriceStep ==
    /\ IsProcessStep
    /\ last_data'.swap_price = 0 \/ last_data'.spot_price = 0

\* C31: a bar whose swap or spot price is zero is skipped: no position is
\* opened or closed for it and the capital and the totals stay as they were
C31_ZeroPriceBarSkipped ==
    [][ IsZeroPriceStep =>
          /\ positions' = positions
          /\ closed_positions' = closed_positions
          /\ capital' = capital
          /\ total_fee' = total_fee
          /\ trade_count' = trade_count
          /\ pc' = pc ]_vars

\* run_single_day is entered
IsStartDayStep == pc = "idle" /\ pc' = "loop"

\* the ledger as the strategy was configured: the initial capital, no totals,
\* no position, no direction lock, no entry made, no settlement time recorded
IsResetLedger ==
    /\ capital = initial_capital
    /\ total_pnl = 0 /\ total_fee = 0 /\ total_funding_fee = 0
    /\ trade_count = 0 /\ win_count = 0
    /\ positions = <<>>
    /\ current_position_type = NoType
    /\ last_entry_time = 0
    /\ next_funding_time = None

\* C32: every day starts on a reset ledger: when run_single_day is entered the
\* ledger equals the configured initial state, whatever earlier days wrote
C32_DayStartsOnResetLedger ==
    [][ IsStartDayStep => IsResetLedger ]_vars

\* the sum of a field of the day outcomes over the dates 0 .. n - 1
RECURSIVE SumOfDays(_, _)
SumOfDays(field, n) ==
    IF n = 0 THEN 0 ELSE workers[n - 1][field] + SumOfDays(field, n - 1)

\* C33: the totals run() returns combine the results of all simulated days,
\* whatever the order in which the parallel day runs complete: the trade
\* count, the realised PnL, the fees and the funding fees returned are the sums
\* over the day runs, and the final capital is the initial capital plus what
\* the days gained
C33_TotalsCombineAllDays ==
    report # NoReport =>
        /\ report.trade_count = SumOfDays("trade_count", MaxDays)
        /\ report.total_pnl = SumOfDays("total_pnl", MaxDays)
        /\ report.total_fee = SumOfDays("total_fee", MaxDays)
        /\ report.total_funding_fee = SumOfDays("total_funding_fee", MaxDays)
        /\ report.final_capital - report.initial_capital
              = SumOfDays("capital", MaxDays) - MaxDays * initial_capital

\* C34: after run() the per-day result list holds exactly one record for every
\* simulated date, in date order, whatever the order of completion and also
\* for dates without bars
C34_OneRecordPerDateInOrder ==
    report # NoReport =>
        report.daily_results = [k \in 1 .. MaxDays |-> k - 1]

\* C35: a missing tick file fails its own day only: the run is never ended by
\* a missing file, so the dates after it are still simulated and reported
C35_MissingFileFailsOneDay ==
    pc # "file_missing"

\* the arguments a strategy or a backtester was constructed with are valid
ValidStrategyArgs ==
    strategy_built.capital > 0 /\ strategy_built.max_positions > 0

ValidBacktesterArgs == backtester_built.interval_ms > 0

\* C36: a strategy constructed with capital <= 0 or max_positions <= 0 and a
\* backtester constructed with interval <= 0 fail at construction: no such
\* object comes to exist and no row is handed to a strategy so configured
C36_InvalidConfigRejected ==
    /\ strategy_built.status = "constructed" => ValidStrategyArgs
    /\ backtester_built.status = "constructed" => ValidBacktesterArgs
    /\ rows_handed > 0 => (ValidStrategyArgs /\ ValidBacktesterArgs)

\* the loop of run_single_day moves on to the next row of the day's frame
IsRowStep == pc = "loop" /\ df_len' = df_len + 1

\* the funding-time refresh of the strategy step has run on the row just read:
\* the recorded next settlement lies after it (an index with no event records
\* none)
RefreshedOnRow ==
    \/ DOMAIN funding = {}
    \/ /\ next_funding_time' # None
       /\ next_funding_time' > last_data'.exchange_timestamp

\* the rows of a day are read in timestamp order
ReadInOrder == last_data'.exchange_timestamp > last_data.exchange_timestamp

\* C37 as stated: the strategy step runs on every row of the day, the first
\* rows included
C37_EveryRowStepped ==
    [][ IsRowStep => RefreshedOnRow /\ ReadInOrder ]_vars

\* C37: the strategy step runs once, in timestamp order, on every row the loop
\* reaches from index window_size on; the first window_size rows of the day are
\* history only and leave the ledger as it was
C37_SteppedFromWindowSizeOn ==
    [][ IsRowStep =>
          /\ ReadInOrder
          /\ df_len >= WindowSize => RefreshedOnRow
          /\ df_len < WindowSize => UNCHANGED ledger_vars ]_vars

\* a day whose first window_size rows were passed over and whose next row was
\* evaluated and opened a position
C37_Witness ==
    /\ pc = "loop"
    /\ df_len = WindowSize + 1
    /\ next_funding_time # None
    /\ Len(positions) = 1
    /\ total_funding_fee = 0
    /\ trade_count = 0

\* a step on a row at or after the recorded next settlement, for which the
\* funding index has no next event, taken by a ledger that is free to enter
\* and given an entry signal
IsStaleSettlementEntryStep ==
    /\ IsProcessStep
    /\ pc' = "loop"
    /\ positions = <<>>
    /\ next_funding_time # None
    /\ next_funding_time <= last_data'.exchange_timestamp
    /\ get_next_funding_rate(last_data'.exchange_timestamp).ts = None
    /\ get_entry_signal(last_data') # 0
    /\ ~ TooSoonAfterEntry(Ledger, last_data'.exchange_timestamp)
    /\ can_open_position(Ledger,
                         IF get_entry_signal(last_data') > 0 THEN "long" ELSE "short")

\* C38: a recorded next settlement that has already passed, with no next event
\* in the funding index, does not suppress an entry signal: the entry is made
C38_StaleSettlementDoesNotBlock ==
    [][ IsStaleSettlementEntryStep => positions' # <<>> ]_vars

\* C39: after any sequence of entries, signal exits, funding accruals and
\* forced liquidations the ledger satisfies
\* capital = initial_capital + total_pnl - total_fee + total_funding_fee
C39_AccountingIdentity ==
    capital = initial_capital + total_pnl - total_fee + total_funding_fee

\* a ledger that has entered, accrued a funding fee, and closed a trade
C39_Witness ==
    /\ total_fee > 0
    /\ total_funding_fee # 0
    /\ trade_count > 0
    /\ total_pnl # 0
    /\ capital # initial_capital

\* C40: when a sequential run has simulated its days, the net_pnl that run()
\* returns equals final_capital - initial_capital
C40_NetPnlIsCapitalChange ==
    (pc = "idle" /\ day > 0) =>
        RunReport.net_pnl = RunReport.final_capital - RunReport.initial_capital

============================================================================
